---- MODULE Spec2Model ----
(***************************************************************************)
(* A model of dorothy (src/src/main.rs, types.rs, api.rs): the per-channel *)
(* chat history with its token budget, its rendering into a prompt, the    *)
(* registry of histories, the message handler with its commands and the    *)
(* completion loop.                                                        *)
(*                                                                         *)
(* A Rust String is a sequence of one-character strings, so that split,    *)
(* trim, replace, starts_with and concatenation are computed on the        *)
(* characters.  Option<T> is a sequence of length 0 (None) or 1 (Some).    *)
(***************************************************************************)
EXTENDS Integers, Sequences, FiniteSets, TLC

\* ------------------------------------------------------------------------
\* Bounds of the model
\* ------------------------------------------------------------------------

\* messages delivered to the handler in one behaviour
MaxMsgs == 2

\* remote calls of one completion loop
MaxRounds == 2

\* spaces between the two words of the long human line
BigGap == 1475

\* ------------------------------------------------------------------------
\* Strings
\* ------------------------------------------------------------------------

None == <<>>

Some(v) == <<v>>

\* " ".repeat(n)
Spaces(n) == [i \in 1..n |-> " "]

\* char::is_whitespace, on the characters the model uses
IsWhitespace(ch) == ch \in {" ", "\n", "\t"}

\* the separator of split(' ')
IsSpace(ch) == ch = " "

\* line.split(' ').count(): one more than the number of ' ' characters
SplitCount(line) == Len(SelectSeq(line, IsSpace)) + 1

\* str::trim_start
RECURSIVE TrimStart(_)
TrimStart(s) ==
    IF s # <<>> /\ IsWhitespace(Head(s)) THEN TrimStart(Tail(s)) ELSE s

\* str::trim_end
RECURSIVE TrimEnd(_)
TrimEnd(s) ==
    IF s # <<>> /\ IsWhitespace(s[Len(s)])
    THEN TrimEnd(SubSeq(s, 1, Len(s) - 1))
    ELSE s

\* str::trim
Trim(s) == TrimEnd(TrimStart(s))

\* str::replace("\n", " ")
ReplaceNewlines(s) == [i \in 1..Len(s) |-> IF s[i] = "\n" THEN " " ELSE s[i]]

\* str::starts_with
StartsWith(s, p) == Len(s) >= Len(p) /\ SubSeq(s, 1, Len(p)) = p

\* s.chars().skip(n).collect::<String>()
Skip(s, n) == SubSeq(s, n + 1, Len(s))

\* the characters of the decimal digits
Digits == {"0", "1", "2", "3", "4", "5", "6", "7", "8", "9"}

DigitValue(ch) ==
    CASE ch = "0" -> 0 [] ch = "1" -> 1 [] ch = "2" -> 2 [] ch = "3" -> 3
      [] ch = "4" -> 4 [] ch = "5" -> 5 [] ch = "6" -> 6 [] ch = "7" -> 7
      [] ch = "8" -> 8 [] ch = "9" -> 9

\* the value of a sequence of digits
RECURSIVE DecimalValue(_)
DecimalValue(ds) ==
    IF ds = <<>> THEN 0
    ELSE 10 * DecimalValue(SubSeq(ds, 1, Len(ds) - 1)) + DigitValue(ds[Len(ds)])

\* ------------------------------------------------------------------------
\* Numbers of the configuration commands
\* ------------------------------------------------------------------------

\* An f64 written in decimal: (-1)^neg * mant / 10^scale, with no trailing
\* zero in the fraction, so that equal numbers are equal records.
RECURSIVE NormalF64(_, _, _)
NormalF64(neg, mant, scale) ==
    IF scale > 0 /\ mant % 10 = 0
    THEN NormalF64(neg, mant \div 10, scale - 1)
    ELSE [neg |-> neg, mant |-> mant, scale |-> scale]

\* str::parse::<usize>(): an optional '+' and at least one digit
ParseUsize(s) ==
    LET ds == IF s # <<>> /\ s[1] = "+" THEN Tail(s) ELSE s
    IN  IF ds # <<>> /\ \A i \in 1..Len(ds) : ds[i] \in Digits
        THEN Some(DecimalValue(ds))
        ELSE None

\* str::parse::<f64>() on decimal notation: Sign? (Digit+ | Digit+ '.' Digit*
\* | Digit* '.' Digit+); the exponent, "inf" and "nan" forms are left out
\* (no input of the model is written in them)
ParseF64(s) ==
    LET signed == s # <<>> /\ s[1] \in {"+", "-"}
        neg    == s # <<>> /\ s[1] = "-"
        body   == IF signed THEN Tail(s) ELSE s
        dots   == {i \in 1..Len(body) : body[i] = "."}
        digits == SelectSeq(body, LAMBDA ch : ch # ".")
    IN  IF /\ Cardinality(dots) <= 1
           /\ digits # <<>>
           /\ \A i \in 1..Len(digits) : digits[i] \in Digits
        THEN LET scale == IF dots = {} THEN 0
                          ELSE Len(body) - (CHOOSE i \in dots : TRUE)
             IN  Some(NormalF64(neg, DecimalValue(digits), scale))
        ELSE None

\* ------------------------------------------------------------------------
\* ChatHistory
\* ------------------------------------------------------------------------

\* the budget of calculate_new_tokens
TokenCeiling == 1500

\* the tokens_so_far ChatHistory::new starts with
InitialTokens == 20

\* the start_context ChatHistory::new starts with:
\* "The following is a conversation with an AI named Dorothy. Dorothy has
\* short, red hair, red eyes and extremely pale (almost white) skin. Dorothy
\* appears to have a bubbly, joyful and somewhat flirtatious attitude. She
\* often greets every patron politely and doesn't at any point seem overly
\* aggressive or violent. She takes great pride in her work"
InitialStartContext ==
    <<"T","h","e"," ","f","o","l","l","o","w","i","n","g"," ","i","s"," ","a"," ","c","o","n",
      "v","e","r","s","a","t","i","o","n"," ","w","i","t","h"," ","a","n"," ","A","I"," ","n",
      "a","m","e","d"," ","D","o","r","o","t","h","y","."," ","D","o","r","o","t","h","y"," ",
      "h","a","s"," ","s","h","o","r","t",","," ","r","e","d"," ","h","a","i","r",","," ","r",
      "e","d"," ","e","y","e","s"," ","a","n","d"," ","e","x","t","r","e","m","e","l","y"," ",
      "p","a","l","e"," ","(","a","l","m","o","s","t"," ","w","h","i","t","e",")"," ","s","k",
      "i","n","."," ","D","o","r","o","t","h","y"," ","a","p","p","e","a","r","s"," ","t","o",
      " ","h","a","v","e"," ","a"," ","b","u","b","b","l","y",","," ","j","o","y","f","u","l",
      " ","a","n","d"," ","s","o","m","e","w","h","a","t"," ","f","l","i","r","t","a","t","i",
      "o","u","s"," ","a","t","t","i","t","u","d","e","."," ","S","h","e"," ","o","f","t","e",
      "n"," ","g","r","e","e","t","s"," ","e","v","e","r","y"," ","p","a","t","r","o","n"," ",
      "p","o","l","i","t","e","l","y"," ","a","n","d"," ","d","o","e","s","n","'","t"," ","a",
      "t"," ","a","n","y"," ","p","o","i","n","t"," ","s","e","e","m"," ","o","v","e","r","l",
      "y"," ","a","g","g","r","e","s","s","i","v","e"," ","o","r"," ","v","i","o","l","e","n",
      "t","."," ","S","h","e"," ","t","a","k","e","s"," ","g","r","e","a","t"," ","p","r","i",
      "d","e"," ","i","n"," ","h","e","r"," ","w","o","r","k">>

\* Configuration::default
DefaultConfiguration ==
    [top_p             |-> Some(1),
     temperature       |-> Some(NormalF64(FALSE, 9, 1)),
     frequency_penalty |-> Some(NormalF64(FALSE, 0, 1)),
     presence_penalty  |-> Some(NormalF64(FALSE, 6, 1))]

\* ChatHistory::new.  Beside the fields of the code there are history
\* variables: the stamp of a log entry is the number of entries pushed to the
\* two logs before it since they were last empty by construction or reset
\* (pushed counts them), and plain says that since construction nothing but
\* add_human_log and add_ai_log has acted on the history, without a purge.
NewChatHistory(is_private) ==
    [is_private     |-> is_private,
     human_chat_log |-> <<>>,
     ai_chat_log    |-> <<>>,
     seen_names     |-> {},
     tokens_so_far  |-> InitialTokens,
     start_context  |-> InitialStartContext,
     start_context_lock |-> "free",
     configuration  |-> DefaultConfiguration,
     pushed         |-> 0,
     plain          |-> TRUE]

\* Vec::drain(0..n)
Drain(log, n) == SubSeq(log, n + 1, Len(log))

\* a purge that rounds the half up
purge_half_rounding_up(c) ==
    [c EXCEPT !.human_chat_log = Drain(@, (Len(@) + 1) \div 2),
              !.ai_chat_log = Drain(@, (Len(@) + 1) \div 2)]

\* a purge that drops every turn
purge_all_chat_logs(c) ==
    [c EXCEPT !.human_chat_log = Drain(@, Len(@)),
              !.ai_chat_log = Drain(@, Len(@))]

\* a purge that forgets the speakers along with the older turns
purge_forgetting_names(c) ==
    [c EXCEPT !.human_chat_log = Drain(@, Len(@) \div 2),
              !.ai_chat_log = Drain(@, Len(@) \div 2),
              !.seen_names = {}]

\* ChatHistory::purge_half_chat_logs
purge_half_chat_logs(c) ==
    [c EXCEPT !.human_chat_log = Drain(@, Len(@) \div 2),
              !.ai_chat_log = Drain(@, Len(@) \div 2)]

\* the cost recalculate_tokens gives a human entry
HumanLogTokens(c, human_log) ==
    SplitCount(human_log.line)
      + (IF c.is_private THEN 1 ELSE SplitCount(human_log.name))

\* the cost recalculate_tokens gives an ai entry
AiLogTokens(ai_log) == SplitCount(ai_log.line) + 1

RECURSIVE SumOver(_, _, _)
SumOver(log, Cost(_), acc) ==
    IF log = <<>> THEN acc ELSE SumOver(Tail(log), Cost, acc + Cost(Head(log)))

\* a recomputation that counts the turns but not the start context
recalculate_turns_only(c) ==
    LET humans == SumOver(c.human_chat_log, LAMBDA e : HumanLogTokens(c, e), 0)
    IN  [c EXCEPT !.tokens_so_far = SumOver(c.ai_chat_log, AiLogTokens, humans)]

\* ChatHistory::recalculate_tokens
recalculate_tokens(c) ==
    LET base   == SplitCount(c.start_context)
        humans == SumOver(c.human_chat_log, LAMBDA e : HumanLogTokens(c, e), base)
    IN  [c EXCEPT !.tokens_so_far = SumOver(c.ai_chat_log, AiLogTokens, humans)]

\* the test of calculate_new_tokens: the line does not fit the budget
OverBudget(c, line) == SplitCount(line) + c.tokens_so_far > TokenCeiling

\* ChatHistory::calculate_new_tokens
calculate_new_tokens(c, line) ==
    LET new_tokens == SplitCount(line)
        kept == IF OverBudget(c, line)
                THEN [recalculate_tokens(purge_half_chat_logs(c))
                          EXCEPT !.plain = FALSE]
                ELSE c
    IN  [kept EXCEPT !.tokens_so_far = @ + new_tokens]

\* ChatHistory::add_human_log
add_human_log(c, name, line) ==
    LET d == calculate_new_tokens(c, line)
    IN  [d EXCEPT !.human_chat_log =
                      Append(@, [name |-> name, line |-> line, stamp |-> d.pushed]),
                  !.pushed = @ + 1]

\* ChatHistory::add_ai_log
add_ai_log(c, line) ==
    LET d == calculate_new_tokens(c, line)
    IN  [d EXCEPT !.ai_chat_log = Append(@, [line |-> line, stamp |-> d.pushed]),
                  !.pushed = @ + 1]

\* ChatHistory::continue_last_ai_log; with no ai entry the line is dropped
\* (and "Continuation with no last ai chat log!" is printed)
continue_last_ai_log(c, line) ==
    LET d == calculate_new_tokens(c, line)
        n == Len(d.ai_chat_log)
    IN  IF n > 0
        THEN [d EXCEPT !.ai_chat_log[n].line = @ \o line, !.plain = FALSE]
        ELSE [d EXCEPT !.plain = FALSE]

\* a reset that keeps the names seen
reset_keeping_names(c) ==
    recalculate_tokens([c EXCEPT !.human_chat_log = <<>>,
                                 !.ai_chat_log = <<>>,
                                 !.pushed = 0,
                                 !.plain = FALSE])

\* ChatHistory::reset
reset(c) ==
    recalculate_tokens([c EXCEPT !.human_chat_log = <<>>,
                                 !.ai_chat_log = <<>>,
                                 !.seen_names = {},
                                 !.pushed = 0,
                                 !.plain = FALSE])

\* format!("{}:", name)
WithColon(name) == name \o <<":">>

\* what seen_names.iter() can yield when nothing is cut off: all the names,
\* in any order
TakeAll(names) ==
    {s \in [1..Cardinality(names) -> names] :
         \A i, j \in DOMAIN s : i # j => s[i] # s[j]}

\* what seen_names.iter().take(2) can yield: HashSet iterates in an order of
\* its own, so any min(2, len) distinct names, in any order
TakeTwo(names) ==
    IF Cardinality(names) < 2
    THEN {<<n>> : n \in names} \cup (IF names = {} THEN {<<>>} ELSE {})
    ELSE {<<n1, n2>> : n1 \in names, n2 \in names} \ {<<n, n>> : n \in names}

\* ChatHistory::get_stop_tokens: the vectors the call can return
get_stop_tokens(c, ai_name) ==
    LET buf == <<<<"\n">>, WithColon(ai_name)>>
    IN  IF c.is_private
        THEN {Append(buf, <<"H", "u", "m", "a", "n", ":">>)}
        ELSE {buf \o [i \in 1..Len(names) |-> WithColon(names[i])] :
                  names \in TakeTwo(c.seen_names)}

\* a human line that ends in a space
HumanLineEndingInSpace(c, human_line) ==
    (IF c.is_private THEN <<"H", "u", "m", "a", "n">> ELSE human_line.name)
      \o <<":", " ">> \o Trim(human_line.line) \o <<" ">>

\* write!(buf, "{}: {}\n", label, human_line.line.trim())
HumanLine(c, human_line) ==
    (IF c.is_private THEN <<"H", "u", "m", "a", "n">> ELSE human_line.name)
      \o <<":", " ">> \o Trim(human_line.line) \o <<"\n">>

\* an ai line that always ends in a newline
AiLineEndingInNewline(ai_name, ai_line, last) ==
    ai_name \o <<":", " ">> \o Trim(ai_line.line) \o <<"\n">>

\* write!(buf, "{}: {}{}", ai_name, ai_line.trim(), " " or "\n"): last says
\* that both iterators are exhausted after this line
AiLine(ai_name, ai_line, last) ==
    ai_name \o <<":", " ">> \o Trim(ai_line.line)
      \o (IF last THEN <<" ">> ELSE <<"\n">>)

\* The while loop of ChatHistory::to_string, as the lines it writes in order:
\* h and a are the numbers of entries the two iterators have yielded, and a
\* line is the entry's log and index, with for an ai entry whether both
\* iterators are exhausted after it.
RECURSIVE to_string_loop(_, _, _, _, _, _)
to_string_loop(nh, na, lines, h, a, is_human_talking) ==
    IF h >= nh /\ a >= na THEN lines
    ELSE IF is_human_talking
    THEN IF h < nh
         THEN to_string_loop(nh, na,
                             Append(lines, [human |-> TRUE, index |-> h + 1,
                                            last |-> FALSE]),
                             h + 1, a, FALSE)
         ELSE to_string_loop(nh, na, lines, h, a, FALSE)
    ELSE IF a < na
         THEN to_string_loop(nh, na,
                             Append(lines, [human |-> FALSE, index |-> a + 1,
                                            last |-> a + 1 >= na /\ h >= nh]),
                             h, a + 1, TRUE)
         ELSE to_string_loop(nh, na, lines, h, a, TRUE)

\* the lines ChatHistory::to_string writes after the start context
LinesWritten(c) ==
    to_string_loop(Len(c.human_chat_log), Len(c.ai_chat_log), <<>>, 0, 0, TRUE)

\* the text of one written line
LineText(c, ai_name, l) ==
    IF l.human
    THEN HumanLine(c, c.human_chat_log[l.index])
    ELSE AiLine(ai_name, c.ai_chat_log[l.index], l.last)

RECURSIVE Concat(_, _)
Concat(texts, buf) ==
    IF texts = <<>> THEN buf ELSE Concat(Tail(texts), buf \o Head(texts))

\* ChatHistory::to_string
to_string(c, ai_name) ==
    LET lines == LinesWritten(c)
    IN  Concat([i \in 1..Len(lines) |-> LineText(c, ai_name, lines[i])],
               c.start_context \o <<"\n", "\n">>)

\* ------------------------------------------------------------------------
\* Identities, messages and the registry key
\* ------------------------------------------------------------------------

\* the user ids the handler names
OwnerId == "599131785732816898"

AdminId == "470255953090969602"

\* the guild channels the handler answers in
AllowedChannels ==
    {"736764305474715650", "682581950971773044", "752799316258848820",
     "752811047479410748", "760421803008720938"}

\* ctx.cache.current_user_id()
MyId == "dorothy"

\* Message::is_private
is_private(m) == m.guild_id = None

\* the ChatMedium create_from_initial_message files a message under
MediumOf(m) ==
    IF m.guild_id # None
    THEN <<"Guild", m.guild_id[1], m.channel_id>>
    ELSE <<"Channel", m.channel_id>>

\* a match that knows only the media of direct conversations
is_channel_of_direct_only(medium, channel_id) ==
    medium[1] = "Channel" /\ medium[2] = channel_id

\* ChatMedium::is_channel
is_channel(medium, channel_id) == medium[Len(medium)] = channel_id

\* ------------------------------------------------------------------------
\* State
\* ------------------------------------------------------------------------

VARIABLES
    history_map,   \* HistoryMap.history_map: ChatMedium -> ChatHistory
    map_writer,    \* the task holding the write lock of history_map, if any
    name,          \* Handler.name
    task,          \* per task of Handler::message: its position and locals
    delivered      \* messages delivered so far (bounds the behaviour)

vars == <<history_map, map_writer, name, task, delivered>>

\* the tasks that can run Handler::message at the same time
Tasks == {"t1", "t2"}

\* a task that is not handling a message.  calls, texts and outcomes are
\* history variables of the completion loop of the message being handled:
\* the remote calls issued, the choice texts received, and what each call
\* that returned came back with ("error", "none", "length" or "stop").
IdleTask ==
    [pc              |-> "idle",
     msg             |-> None,
     ai_name         |-> <<>>,
     first           |-> TRUE,
     response_buffer |-> <<>>,
     request         |-> None,
     result          |-> None,
     reply           |-> None,
     after_reply     |-> "return",
     calls           |-> 0,
     texts           |-> <<>>,
     outcomes        |-> <<>>]

Init ==
    /\ history_map = <<>>
    /\ map_writer = None
    /\ name = None
    /\ task = [t \in Tasks |-> IdleTask]
    /\ delivered = 0

\* Handler::get_name
get_name == IF name # None THEN name[1] ELSE <<"A", "I">>

\* HistoryMap::contains_medium
contains_medium(channel_id) ==
    \E k \in DOMAIN history_map : is_channel(k, channel_id)

\* HashMap::insert: an entry under an equal key is replaced
MapInsert(map, k, v) ==
    [x \in DOMAIN map \cup {k} |-> IF x = k THEN v ELSE map[x]]

\* write_lock.iter_mut().find(|(k, _)| k.is_channel(&msg.channel_id))
FindMedium(channel_id) ==
    CHOOSE k \in DOMAIN history_map : is_channel(k, channel_id)

\* the medium of the history a task works on (chat_history_ref)
Ref(t) == FindMedium(task[t].msg[1].channel_id)

\* human_content_safe: msg.content_safe(..).replace("\n", " ").trim()
HumanContentSafe(m) == Trim(ReplaceNewlines(m.content))

\* ------------------------------------------------------------------------
\* The replies of the commands
\* ------------------------------------------------------------------------

DigitChar(d) ==
    <<"0", "1", "2", "3", "4", "5", "6", "7", "8", "9">>[d + 1]

\* usize::to_string
RECURSIVE UsizeToString(_)
UsizeToString(n) ==
    IF n < 10 THEN <<DigitChar(n)>>
    ELSE UsizeToString(n \div 10) \o <<DigitChar(n % 10)>>

\* f64::to_string of a decimal: the shortest decimal notation
F64ToString(v) ==
    LET ds     == UsizeToString(v.mant)
        padded == [i \in 1..(v.scale + 1 - Len(ds)) |-> "0"] \o ds
        whole  == SubSeq(padded, 1, Len(padded) - v.scale)
        frac   == SubSeq(padded, Len(padded) - v.scale + 1, Len(padded))
    IN  (IF v.neg THEN <<"-">> ELSE <<>>) \o whole
          \o (IF v.scale > 0 THEN <<".">> \o frac ELSE <<>>)

NotSet == <<"N", "o", "t", " ", "s", "e", "t">>

\* Configuration::temperature_str, presence_penalty_str, frequency_penalty_str
F64OptionStr(opt) == IF opt # None THEN F64ToString(opt[1]) ELSE NotSet

\* Configuration::top_p_str
top_p_str(configuration) ==
    IF configuration.top_p # None
    THEN UsizeToString(configuration.top_p[1])
    ELSE NotSet

TextReply(text) == [kind |-> "text", text |-> text]

\* the "!info" reply: the values its format string is filled with, in the
\* order of its arguments (the fixed prose between them is left out)
InfoReply(c) ==
    [kind |-> "info",
     args |-> <<F64OptionStr(c.configuration.temperature),
                top_p_str(c.configuration),
                F64OptionStr(c.configuration.frequency_penalty),
                F64OptionStr(c.configuration.presence_penalty),
                c.start_context,
                UsizeToString(c.tokens_so_far)>>]

ChatlogCleared ==
    <<"[","C","h","a","t","l","o","g"," ","C","l","e","a","r","e","d","]">>

\* the character U+0060, which a string of this language cannot hold
Backquote == "U+0060"

CodeFence == <<Backquote, Backquote, Backquote>>

ContextSetTo ==
    <<"C","o","n","t","e","x","t"," ","s","e","t"," ","t","o",":","\n">>

\* the message sent when generate_response fails
FailedToComplete ==
    <<"F","a","i","l","e","d"," ","t","o"," ","c","o","m","p","l","e","t","e",","," ","t","r",
      "y"," ","r","e","s","e","t","t","i","n","g"," ","(","c","h","e","c","k"," ","c","h","a",
      "n","n","e","l"," ","d","e","s","c","r","i","p","t","i","o","n"," ","t","o"," ","f","i",
      "n","d"," ","o","u","t"," ","h","o","w",")">>

\* ------------------------------------------------------------------------
\* The commands
\* ------------------------------------------------------------------------

CmdTemperature == <<"!","t","e","m","p","e","r","a","t","u","r","e">>

CmdFrequencyPenalty ==
    <<"!","f","r","e","q","u","e","n","c","y","_","p","e","n","a","l","t","y">>

CmdPresencePenalty ==
    <<"!","p","r","e","s","e","n","c","e","_","p","e","n","a","l","t","y">>

CmdTopP == <<"!","t","o","p","_","p">>

CmdReset == <<"!","r","e","s","e","t">>

CmdLog == <<"!","l","o","g">>

CmdContext == <<"!","c","o","n","t","e","x","t","=">>

CmdInfo == <<"!","i","n","f","o">>

\* an option command that clears the option when the value does not parse
ClearUnlessOk(old, parsed) == parsed

\* if let Ok(value) = ...parse() { option = Some(value) }: the option after
\* it, parsed being the Ok value if there is one
IfLetOk(old, parsed) == IF parsed # None THEN parsed ELSE old

\* One option command: the bare command clears the option, a value that
\* parses sets it, any other leaves it.  Parse is the parser of the option.
SetOption(old, content, cmd, Parse(_)) ==
    IF Len(cmd) = Len(content) THEN None
    ELSE IfLetOk(old, Parse(Skip(content, Len(cmd) + 1)))

\* The command branch of Handler::message for an allowed author, up to its
\* first reply (or its end): the history after it, the reply it sends if any,
\* and what it does once the reply is sent.
RunCommand(c, content, ai_name) ==
    LET quiet(d) == [history |-> d, reply |-> None, after_reply |-> "return"]
    IN  IF StartsWith(content, CmdTemperature)
        THEN quiet([c EXCEPT !.configuration.temperature =
                        SetOption(@, content, CmdTemperature, ParseF64)])
        ELSE IF StartsWith(content, CmdFrequencyPenalty)
        THEN quiet([c EXCEPT !.configuration.frequency_penalty =
                        SetOption(@, content, CmdFrequencyPenalty, ParseF64)])
        ELSE IF StartsWith(content, CmdPresencePenalty)
        THEN quiet([c EXCEPT !.configuration.presence_penalty =
                        SetOption(@, content, CmdPresencePenalty, ParseF64)])
        ELSE IF StartsWith(content, CmdTopP)
        THEN quiet([c EXCEPT !.configuration.top_p =
                        SetOption(@, content, CmdTopP, ParseUsize)])
        ELSE IF StartsWith(content, CmdReset)
        THEN [history |-> reset(c),
              reply |-> Some(TextReply(ChatlogCleared)),
              after_reply |-> "return"]
        ELSE IF StartsWith(content, CmdLog)
        THEN [history |-> c,
              reply |-> Some(TextReply(CodeFence \o to_string(c, ai_name)
                                         \o CodeFence)),
              after_reply |-> "return"]
        ELSE IF StartsWith(content, CmdContext)
        THEN LET text == Skip(content, Len(CmdContext))
             IN  [history |-> [c EXCEPT !.start_context = text,
                                        !.start_context_lock = "write",
                                        !.plain = FALSE],
                  reply |-> Some(TextReply(ContextSetTo \o CodeFence \o text
                                             \o CodeFence)),
                  after_reply |-> "reset"]
        ELSE IF StartsWith(content, CmdInfo)
        THEN [history |-> [c EXCEPT !.start_context_lock = "read"],
              reply |-> Some(InfoReply(c)),
              after_reply |-> "unlock"]
        ELSE quiet(c)

\* ------------------------------------------------------------------------
\* The completion loop (generate_response)
\* ------------------------------------------------------------------------

\* max_tokens of every request
MaxTokensPerCall == 50

\* choices_per_prompt of every request
ChoicesPerPrompt == 1

\* the prompt of one round of generate_response
Prompt(c, ai_name, first) ==
    IF first THEN to_string(c, ai_name) \o WithColon(ai_name)
    ELSE to_string(c, ai_name)

\* the CompletionRequestParams of one round; stop is the vector
\* get_stop_tokens returned
CompletionRequest(c, ai_name, first, stop) ==
    [model              |-> "davinci",
     prompt             |-> Prompt(c, ai_name, first),
     presence_penalty   |-> c.configuration.presence_penalty,
     frequency_penalty  |-> c.configuration.frequency_penalty,
     temperature        |-> c.configuration.temperature,
     top_p              |-> c.configuration.top_p,
     max_tokens         |-> MaxTokensPerCall,
     stop_tokens        |-> Some(stop),
     choices_per_prompt |-> Some(ChoicesPerPrompt)]

\* a task at the top of the loop of generate_response: it issues the request
\* of the round and awaits get_completion
IssueCall(tk, c, stop) ==
    [tk EXCEPT !.pc = "get_completion",
               !.request = Some(CompletionRequest(c, tk.ai_name, tk.first, stop)),
               !.calls = @ + 1]

\* the result generate_response returns
OkResult(text) == [ok |-> TRUE, text |-> text]

ErrResult == [ok |-> FALSE, text |-> <<>>]

\* what the handler sends for a result of generate_response
SentFor(result) == IF result.ok THEN result.text ELSE FailedToComplete

\* a task whose generate_response has returned result: it sends the reply
\* or the failure message
Returned(tk, result) ==
    [tk EXCEPT !.pc = "send", !.request = None, !.result = Some(result),
               !.reply = Some(TextReply(SentFor(result)))]

\* a loop that appends the choice of every round as a new turn
RecordChoiceAsNewTurn(c, first, choice_text) == add_ai_log(c, choice_text)

\* the history after the choice text of a round is recorded
RecordChoice(c, first, choice_text) ==
    IF first THEN add_ai_log(c, choice_text)
    ELSE continue_last_ai_log(c, choice_text)

\* ------------------------------------------------------------------------
\* Actions
\* ------------------------------------------------------------------------

\* EventHandler::ready
Ready(user_name) ==
    /\ name' = Some(user_name)
    /\ UNCHANGED <<history_map, map_writer, task, delivered>>

\* whether Handler::message returns at once: its own messages, guild
\* messages outside the allowed channels, direct messages of others
Ignored(m) ==
    \/ m.author.id = MyId
    \/ m.guild_id # None /\ m.channel_id \notin AllowedChannels
    \/ m.guild_id = None /\ m.author.id # OwnerId

\* Handler::message, lines 291-312: a message is delivered to a free task
Deliver(t, m) ==
    /\ task[t].pc = "idle"
    /\ delivered < MaxMsgs
    /\ delivered' = delivered + 1
    /\ task' = IF Ignored(m) THEN task
               ELSE [task EXCEPT ![t] = [IdleTask EXCEPT !.pc = "contains_medium",
                                                         !.msg = Some(m)]]
    /\ UNCHANGED <<history_map, map_writer, name>>

\* Handler::message, line 314: contains_medium under the read lock
ContainsMedium(t) ==
    /\ task[t].pc = "contains_medium"
    /\ map_writer = None
    /\ task' = [task EXCEPT ![t].pc =
                    IF contains_medium(task[t].msg[1].channel_id)
                    THEN "write_lock" ELSE "create"]
    /\ UNCHANGED <<history_map, map_writer, name, delivered>>

\* Handler::message, line 315: create_from_initial_message under the write
\* lock, which it releases
CreateFromInitialMessage(t) ==
    /\ task[t].pc = "create"
    /\ map_writer = None
    /\ history_map' = MapInsert(history_map, MediumOf(task[t].msg[1]),
                                NewChatHistory(is_private(task[t].msg[1])))
    /\ task' = [task EXCEPT ![t].pc = "write_lock"]
    /\ UNCHANGED <<map_writer, name, delivered>>

\* the task returns from Handler::message, dropping the write lock
Return(t) ==
    /\ task' = [task EXCEPT ![t] = IdleTask]
    /\ map_writer' = None

\* a handler that lets every author run commands
AnyoneAllowed(id) == TRUE

\* msg.author.id.0 == owner || msg.author.id.0 == admin (line 328)
IsAllowed(id) == id \in {OwnerId, AdminId}

\* a handler that drops the write guard of history_map once it has found
\* its history
NoWriteGuard(t) == None

\* the write guard of history_map a task holds from line 318 until it
\* returns
WriteGuard(t) == Some(t)

\* Handler::message, lines 318-453: the write lock is taken and held; a
\* command runs up to its reply or, when it sends none, up to its return; a
\* chat line is logged and the first request of generate_response is issued
Handle(t) ==
    /\ task[t].pc = "write_lock"
    /\ map_writer = None
    /\ UNCHANGED <<name, delivered>>
    /\ LET m       == task[t].msg[1]
           content == HumanContentSafe(m)
       IN  IF ~contains_medium(m.channel_id)
           THEN \* unwrap of None: the task panics, the guard is dropped
                /\ task' = [task EXCEPT ![t].pc = "panicked"]
                /\ UNCHANGED <<history_map, map_writer>>
           ELSE LET k == FindMedium(m.channel_id)
                    c == history_map[k]
                IN  IF StartsWith(content, <<"!">>)
                    THEN IF IsAllowed(m.author.id)
                         THEN LET r == RunCommand(c, content, get_name)
                              IN  /\ history_map' = [history_map EXCEPT ![k] = r.history]
                                  /\ map_writer' = WriteGuard(t)
                                  /\ task' = [task EXCEPT
                                         ![t].pc = "reply",
                                         ![t].reply = r.reply,
                                         ![t].after_reply = r.after_reply]
                         ELSE /\ map_writer' = WriteGuard(t)
                              /\ task' = [task EXCEPT ![t].pc = "reply"]
                              /\ UNCHANGED history_map
                    ELSE LET seen   == [c EXCEPT !.seen_names = @ \cup {m.author.name}]
                         IN  \E logged \in {add_human_log(seen, m.author.name, content)} :
                             \E stop \in get_stop_tokens(logged, get_name) :
                                 /\ history_map' = [history_map EXCEPT ![k] = logged]
                                 /\ map_writer' = WriteGuard(t)
                                 /\ task' = [task EXCEPT ![t] =
                                        IssueCall([@ EXCEPT !.ai_name = get_name],
                                                  logged, stop)]

\* a "!context=" that goes on to reset with its write guard of
\* start_context still alive
KeepGuard(c) == c

\* drop(start_context_write_lock) (line 407)
DropGuard(c) == [c EXCEPT !.start_context_lock = "free"]

\* start_context.read().await returns: no write guard of start_context is
\* alive
CanRead(c) == c.start_context_lock # "write"

\* the reply of a command, if it sends one, has been sent: "!context=" drops
\* its write guard of start_context and resets, which takes the read lock of
\* start_context (line 96); "!info" drops its read guard; the task returns
\* (line 433)
ReplySent(t) ==
    /\ task[t].pc = "reply"
    /\ LET k == Ref(t)
           c == history_map[k]
       IN  IF task[t].after_reply = "reset"
           THEN /\ CanRead(DropGuard(c))
                /\ history_map' = [history_map EXCEPT ![k] = reset(DropGuard(c))]
           ELSE history_map' = [history_map EXCEPT ![k] =
                                    [c EXCEPT !.start_context_lock = "free"]]
    /\ Return(t)
    /\ UNCHANGED <<name, delivered>>

\* what a response came back with
Outcome(resp) ==
    IF ~resp.ok THEN "error"
    ELSE IF resp.choices = <<>> THEN "none"
    ELSE resp.choices[Len(resp.choices)].finish_reason

\* a loop that returns what it has when get_completion fails
OnErrorReturnPartial(tk) == Returned(tk, OkResult(tk.response_buffer))

\* generate_response when get_completion fails: the error is returned
OnError(tk) == Returned(tk, ErrResult)

\* a loop that breaks after every choice
BreaksLoopAlways(finish_reason) == TRUE

\* matches!(first_choice.finish_reason, FinishReason::Stop): the loop breaks
BreaksLoop(finish_reason) == finish_reason = "stop"

\* get_completion returns resp to generate_response (lines 518-536): an
\* error ends the loop with the error; a choice is recorded and, unless it
\* stopped, the next request is issued; no choice ends the loop
CompletionResponse(t, resp) ==
    /\ task[t].pc = "get_completion"
    /\ UNCHANGED <<map_writer, name, delivered>>
    /\ LET tk == [task[t] EXCEPT !.outcomes = Append(@, Outcome(resp))]
           k  == Ref(t)
           c  == history_map[k]
       IN  IF ~resp.ok
           THEN /\ task' = [task EXCEPT ![t] = OnError(tk)]
                /\ UNCHANGED history_map
           ELSE IF resp.choices = <<>>
           THEN /\ task' = [task EXCEPT ![t] =
                                Returned(tk, OkResult(tk.response_buffer))]
                /\ UNCHANGED history_map
           ELSE LET first_choice == resp.choices[Len(resp.choices)]
                    choice_text  == ReplaceNewlines(first_choice.text)
                    d   == RecordChoice(c, tk.first, choice_text)
                    got == [tk EXCEPT !.first = FALSE,
                                      !.response_buffer = @ \o choice_text,
                                      !.texts = Append(@, first_choice.text)]
                IN  /\ history_map' = [history_map EXCEPT ![k] = d]
                    /\ IF BreaksLoop(first_choice.finish_reason)
                       THEN task' = [task EXCEPT ![t] =
                                Returned(got, OkResult(got.response_buffer))]
                       ELSE \E stop \in get_stop_tokens(d, tk.ai_name) :
                                task' = [task EXCEPT ![t] = IssueCall(got, d, stop)]

\* Handler::message, lines 453-478: the reply (or the failure message) has
\* been sent, and the task returns
Sent(t) ==
    /\ task[t].pc = "send"
    /\ Return(t)
    /\ UNCHANGED <<history_map, name, delivered>>

\* ------------------------------------------------------------------------
\* Inputs and specifications
\* ------------------------------------------------------------------------

GuildChannel == "736764305474715650"

OtherChannel == "100000000000000001"

DirectChannel == "200000000000000002"

Owner == [id |-> OwnerId, name |-> <<"h", "a", "z", "e">>]

Alice == [id |-> "300000000000000003", name |-> <<"A", "l", "i", "c", "e">>]

Myself == [id |-> MyId, name |-> <<"B", "o", "t">>]

GuildMessage(channel_id, author, content) ==
    [guild_id |-> Some("guild"), channel_id |-> channel_id,
     author |-> author, content |-> content]

DirectMessage(author, content) ==
    [guild_id |-> None, channel_id |-> DirectChannel,
     author |-> author, content |-> content]

\* " hi\n": a one-word line with whitespace around it
SmallLine == <<" ", "h", "i", "\n">>

\* two words BigGap spaces apart: a line of BigGap + 1 estimated tokens
BigLine == <<"a">> \o Spaces(BigGap) \o <<"b">>

\* the messages of Spec
Messages ==
    {GuildMessage(GuildChannel, Alice, SmallLine),
     GuildMessage(GuildChannel, Alice, BigLine),
     DirectMessage(Owner, SmallLine),
     GuildMessage(GuildChannel, Owner, CmdReset),
     GuildMessage(GuildChannel, Owner, CmdContext \o <<"H","e","l","l","o",".">>),
     GuildMessage(OtherChannel, Alice, SmallLine),
     DirectMessage(Alice, SmallLine),
     GuildMessage(GuildChannel, Myself, SmallLine)}

\* the texts of the choices the remote service returns: " ok" and "\nno"
ChoiceTexts == {<<" ", "o", "k">>, <<"\n", "n", "o">>}

\* what get_completion can return to a task: an error, no choice, or one
\* choice (the request asks for one); the loop of a task is cut after
\* MaxRounds calls by letting its last call not end in "length"
Responses(t) ==
    {[ok |-> FALSE, choices |-> <<>>], [ok |-> TRUE, choices |-> <<>>]}
      \cup {[ok |-> TRUE, choices |-> <<[text |-> x, finish_reason |-> f]>>] :
                x \in ChoiceTexts,
                f \in IF task[t].calls < MaxRounds THEN {"length", "stop"}
                      ELSE {"stop"}}

\* the tasks messages are delivered to in Spec: one message at a time
SpecTasks == {"t1"}

Next ==
    \/ Ready(<<"B", "o", "t">>)
    \/ \E t \in SpecTasks, m \in Messages : Deliver(t, m)
    \/ \E t \in Tasks : ContainsMedium(t)
    \/ \E t \in Tasks : CreateFromInitialMessage(t)
    \/ \E t \in Tasks : Handle(t)
    \/ \E t \in Tasks : ReplySent(t)
    \/ \E t \in Tasks : \E resp \in Responses(t) : CompletionResponse(t, resp)
    \/ \E t \in Tasks : Sent(t)

Spec == Init /\ [][Next]_vars

\* a remote call that was issued returns with some response
CallReturns ==
    \E t \in Tasks : \E resp \in Responses(t) : CompletionResponse(t, resp)

\* the messages of FairSpec: chat lines that run the completion loop, with
\* and without a purge, a command and a message the handler ignores
LoopMessages ==
    {GuildMessage(GuildChannel, Alice, SmallLine),
     GuildMessage(GuildChannel, Alice, BigLine),
     GuildMessage(GuildChannel, Owner, CmdReset),
     GuildMessage(GuildChannel, Myself, SmallLine)}

LoopNext ==
    \/ Ready(<<"B", "o", "t">>)
    \/ \E t \in SpecTasks, m \in LoopMessages : Deliver(t, m)
    \/ \E t \in Tasks : ContainsMedium(t)
    \/ \E t \in Tasks : CreateFromInitialMessage(t)
    \/ \E t \in Tasks : Handle(t)
    \/ \E t \in Tasks : ReplySent(t)
    \/ CallReturns
    \/ \E t \in Tasks : Sent(t)

\* the handler where every remote call returns; the calls of one run that
\* may end in "length" are bounded by MaxRounds (Responses), so some call
\* yields "stop", no choice or an error
FairSpec == Init /\ [][LoopNext]_vars /\ WF_vars(CallReturns)

\* the messages of ConcSpec: chat lines of two conversations and a command
ConcMessages ==
    {GuildMessage(GuildChannel, Alice, SmallLine),
     DirectMessage(Owner, SmallLine),
     GuildMessage(GuildChannel, Owner, CmdReset)}

\* the handler with messages delivered to both tasks, which then run
\* interleaved (the runtime spawns a task per message)
ConcNext ==
    \/ Ready(<<"B", "o", "t">>)
    \/ \E t \in Tasks, m \in ConcMessages : Deliver(t, m)
    \/ \E t \in Tasks : ContainsMedium(t)
    \/ \E t \in Tasks : CreateFromInitialMessage(t)
    \/ \E t \in Tasks : Handle(t)
    \/ \E t \in Tasks : ReplySent(t)
    \/ CallReturns
    \/ \E t \in Tasks : Sent(t)

ConcSpec == Init /\ [][ConcNext]_vars

\* the messages of PurgeSpec: in the guild channel a line that fits the
\* budget and one that does not, in a direct conversation one that does not,
\* "!reset" and "!context="
PurgeMessages ==
    {GuildMessage(GuildChannel, Alice, SmallLine),
     GuildMessage(GuildChannel, Alice, BigLine),
     DirectMessage(Owner, BigLine),
     GuildMessage(GuildChannel, Owner, CmdReset),
     GuildMessage(GuildChannel, Owner, CmdContext \o <<"H","e","l","l","o",".">>)}

\* the handler with the messages of PurgeMessages, one at a time
PurgeNext ==
    \/ Ready(<<"B", "o", "t">>)
    \/ \E t \in SpecTasks, m \in PurgeMessages : Deliver(t, m)
    \/ \E t \in Tasks : ContainsMedium(t)
    \/ \E t \in Tasks : CreateFromInitialMessage(t)
    \/ \E t \in Tasks : Handle(t)
    \/ \E t \in Tasks : ReplySent(t)
    \/ CallReturns
    \/ \E t \in Tasks : Sent(t)

PurgeSpec == Init /\ [][PurgeNext]_vars

\* the messages of LockSpec: the commands that hold a lock of start_context
\* while they reply ("!context=" its write lock, with a reset to follow,
\* "!info" its read lock) and a chat line
LockMessages ==
    {GuildMessage(GuildChannel, Owner, CmdContext \o <<"H","e","l","l","o",".">>),
     GuildMessage(GuildChannel, Owner, CmdInfo),
     GuildMessage(GuildChannel, Alice, SmallLine)}

\* the handler with the messages of LockMessages delivered to both tasks
LockNext ==
    \/ Ready(<<"B", "o", "t">>)
    \/ \E t \in Tasks, m \in LockMessages : Deliver(t, m)
    \/ \E t \in Tasks : ContainsMedium(t)
    \/ \E t \in Tasks : CreateFromInitialMessage(t)
    \/ \E t \in Tasks : Handle(t)
    \/ \E t \in Tasks : ReplySent(t)
    \/ CallReturns
    \/ \E t \in Tasks : Sent(t)

\* a step of the handler task t
TaskStep(t) ==
    \/ ContainsMedium(t)
    \/ CreateFromInitialMessage(t)
    \/ Handle(t)
    \/ ReplySent(t)
    \/ \E resp \in Responses(t) : CompletionResponse(t, resp)
    \/ Sent(t)

\* the runtime polls every task that can run, the locks are handed to those
\* who wait for them, and the sends and the remote calls return
LockSpec == Init /\ [][LockNext]_vars /\ \A t \in Tasks : WF_vars(TaskStep(t))

Bob == [id |-> "400000000000000004", name |-> <<"B", "o", "b">>]

Carol == [id |-> "500000000000000005", name |-> <<"C", "a", "r", "o", "l">>]

\* the history of a guild channel after an exchange with author: the
\* author wrote SmallLine and the completion " ok" was recorded
Exchange(c, author) ==
    LET m      == GuildMessage(GuildChannel, author, SmallLine)
        seen   == [c EXCEPT !.seen_names = @ \cup {m.author.name}]
        logged == add_human_log(seen, m.author.name, HumanContentSafe(m))
    IN  RecordChoice(logged, TRUE, ReplaceNewlines(<<" ", "o", "k">>))

\* the history of the guild channel after earlier exchanges with Alice and
\* with Bob
EarlierExchanges == Exchange(Exchange(NewChatHistory(FALSE), Alice), Bob)

\* the registry when the messages of NamesSpec start to arrive: empty, or
\* holding the guild channel after the earlier exchanges
NamesInit ==
    /\ history_map \in
           {<<>>,
            MapInsert(<<>>, MediumOf(GuildMessage(GuildChannel, Alice, SmallLine)),
                      EarlierExchanges)}
    /\ map_writer = None
    /\ name = None
    /\ task = [t \in Tasks |-> IdleTask]
    /\ delivered = 0

\* the messages of NamesSpec: the chat line of a third speaker in the guild
\* channel, a direct message, and a "!reset"
NamesMessages ==
    {GuildMessage(GuildChannel, Carol, SmallLine),
     DirectMessage(Owner, SmallLine),
     GuildMessage(GuildChannel, Owner, CmdReset)}

\* the handler with the messages of NamesMessages, one at a time
NamesNext ==
    \/ Ready(<<"B", "o", "t">>)
    \/ \E t \in SpecTasks, m \in NamesMessages : Deliver(t, m)
    \/ \E t \in Tasks : ContainsMedium(t)
    \/ \E t \in Tasks : CreateFromInitialMessage(t)
    \/ \E t \in Tasks : Handle(t)
    \/ \E t \in Tasks : ReplySent(t)
    \/ CallReturns
    \/ \E t \in Tasks : Sent(t)

NamesSpec == NamesInit /\ [][NamesNext]_vars

\* The option commands of CmdSpec, each with the value written after it, if
\* any, and what it stands for: "unset" for the bare command, "set" with
\* the number the value denotes, "keep" for a value that denotes no number
\* of the option's type.  A float is (-1)^neg * mant / 10^scale.
OptionInputs ==
    <<[option |-> "temperature", cmd |-> CmdTemperature, arg |-> None,
       expect |-> "unset", value |-> None],
      [option |-> "temperature", cmd |-> CmdTemperature,
       arg |-> Some(<<"0", ".", "5">>),
       expect |-> "set", value |-> [neg |-> FALSE, mant |-> 5, scale |-> 1]],
      [option |-> "temperature", cmd |-> CmdTemperature,
       arg |-> Some(<<"a", "b", "c">>),
       expect |-> "keep", value |-> None],
      [option |-> "frequency_penalty", cmd |-> CmdFrequencyPenalty, arg |-> None,
       expect |-> "unset", value |-> None],
      [option |-> "frequency_penalty", cmd |-> CmdFrequencyPenalty,
       arg |-> Some(<<"-", "1", ".", "5">>),
       expect |-> "set", value |-> [neg |-> TRUE, mant |-> 15, scale |-> 1]],
      [option |-> "frequency_penalty", cmd |-> CmdFrequencyPenalty,
       arg |-> Some(<<"1", ".", "2", ".", "3">>),
       expect |-> "keep", value |-> None],
      [option |-> "presence_penalty", cmd |-> CmdPresencePenalty, arg |-> None,
       expect |-> "unset", value |-> None],
      [option |-> "presence_penalty", cmd |-> CmdPresencePenalty,
       arg |-> Some(<<"2">>),
       expect |-> "set", value |-> [neg |-> FALSE, mant |-> 2, scale |-> 0]],
      [option |-> "presence_penalty", cmd |-> CmdPresencePenalty,
       arg |-> Some(<<"-">>),
       expect |-> "keep", value |-> None],
      [option |-> "top_p", cmd |-> CmdTopP, arg |-> None,
       expect |-> "unset", value |-> None],
      [option |-> "top_p", cmd |-> CmdTopP, arg |-> Some(<<"1", "2">>),
       expect |-> "set", value |-> 12],
      [option |-> "top_p", cmd |-> CmdTopP, arg |-> Some(<<"0", ".", "5">>),
       expect |-> "keep", value |-> None],
      [option |-> "top_p", cmd |-> CmdTopP, arg |-> Some(<<"-", "1">>),
       expect |-> "keep", value |-> None]>>

\* the line of an option command: the command, then a space and the value
OptionLine(o) ==
    IF o.arg = None THEN o.cmd ELSE o.cmd \o <<" ">> \o o.arg[1]

\* the texts the "!context=" commands of CmdSpec set: "Be kind." and ""
ContextInputs == {<<"B", "e", " ", "k", "i", "n", "d", ".">>, <<>>}

Admin == [id |-> AdminId, name |-> <<"a", "d", "m">>]

\* a line with the command prefix that is no command
CmdUnknown == <<"!", "b", "o", "g", "u", "s">>

\* the messages of CmdSpec: a chat line, the option commands, "!reset" and
\* "!context=" of the owner, an option command of the other allowed author,
\* a command of an author who is not allowed and a line that is no command
CmdMessages ==
    {GuildMessage(GuildChannel, Alice, SmallLine)}
      \cup {GuildMessage(GuildChannel, Owner, OptionLine(OptionInputs[i])) :
                i \in 1..Len(OptionInputs)}
      \cup {GuildMessage(GuildChannel, Admin, OptionLine(OptionInputs[2]))}
      \cup {GuildMessage(GuildChannel, Owner, CmdReset)}
      \cup {GuildMessage(GuildChannel, Owner, CmdContext \o text) :
                text \in ContextInputs}
      \cup {GuildMessage(GuildChannel, Alice, CmdReset),
            GuildMessage(GuildChannel, Alice, OptionLine(OptionInputs[2])),
            GuildMessage(GuildChannel, Owner, CmdUnknown)}

\* the handler with the messages of CmdMessages, one at a time
CmdNext ==
    \/ Ready(<<"B", "o", "t">>)
    \/ \E t \in SpecTasks, m \in CmdMessages : Deliver(t, m)
    \/ \E t \in Tasks : ContainsMedium(t)
    \/ \E t \in Tasks : CreateFromInitialMessage(t)
    \/ \E t \in Tasks : Handle(t)
    \/ \E t \in Tasks : ReplySent(t)
    \/ CallReturns
    \/ \E t \in Tasks : Sent(t)

CmdSpec == Init /\ [][CmdNext]_vars

\* ------------------------------------------------------------------------
\* Properties
\* ------------------------------------------------------------------------

\* the histories of the registry
Histories == {history_map[k] : k \in DOMAIN history_map}

\* the tasks inside the completion loop or just out of it: their history is
\* as the last append of the loop (or of the human line) left it
InLoop == {t \in Tasks : task[t].pc \in {"get_completion", "send"}}

\* the history a task in the loop works on
HistoryOf(t) == history_map[Ref(t)]

\* the line the last append of a task in the loop added
LastAppended(t) ==
    IF task[t].texts = <<>>
    THEN HumanContentSafe(task[t].msg[1])
    ELSE ReplaceNewlines(task[t].texts[Len(task[t].texts)])

\* the sum of f[1..n]
RECURSIVE Sum(_, _)
Sum(f, n) == IF n = 0 THEN 0 ELSE f[n] + Sum(f, n - 1)

\* the estimate the turns of a history add up to: the words of the start
\* context, for a human turn its words plus 1 (private) or the words of the
\* speaker name, for an agent turn its words plus 1
TurnCosts(c) ==
    SplitCount(c.start_context)
      + Sum([i \in 1..Len(c.human_chat_log) |->
                SplitCount(c.human_chat_log[i].line)
                  + (IF c.is_private THEN 1
                     ELSE SplitCount(c.human_chat_log[i].name))],
            Len(c.human_chat_log))
      + Sum([i \in 1..Len(c.ai_chat_log) |->
                SplitCount(c.ai_chat_log[i].line) + 1],
            Len(c.ai_chat_log))

\* C1: in a new history that only add_human_log and add_ai_log have acted
\* on, none of them purging, tokens_so_far is after each call the cost of the
\* start context plus the costs of the turns.
C1_EstimateIsSumOfTurnCosts ==
    \A c \in Histories :
        (c.plain /\ Len(c.human_chat_log) + Len(c.ai_chat_log) > 0)
            => c.tokens_so_far = TurnCosts(c)

\* C2: right after add_human_log, add_ai_log or continue_last_ai_log,
\* tokens_so_far is at most the ceiling plus the cost of the line just added.
C2_EstimateWithinOneLineOfCeiling ==
    \A t \in InLoop :
        HistoryOf(t).tokens_so_far <= TokenCeiling + SplitCount(LastAppended(t))

\* a step in which task t logs the human line of its message
HumanAppendStep(t) ==
    task[t].pc = "write_lock" /\ task'[t].pc = "get_completion"

\* a step in which task t logs the choice of its first round as a new turn
AiAppendStep(t) ==
    task[t].pc = "get_completion" /\ task[t].first /\ ~task'[t].first

\* log "after" is log "before" without its oldest "dropped" entries, the
\* others in their order, followed by one entry more
KeptThenOneMore(before, after, dropped) ==
    /\ Len(after) = Len(before) - dropped + 1
    /\ \A i \in 1..(Len(before) - dropped) : after[i] = before[i + dropped]

\* log "after" is log "before" without its oldest "dropped" entries
Kept(before, after, dropped) ==
    /\ Len(after) = Len(before) - dropped
    /\ \A i \in 1..(Len(before) - dropped) : after[i] = before[i + dropped]

\* the entries an append of line drops of a log: the older half, rounded
\* down, when the line does not fit the budget, and none when it fits
DroppedAt(c, line, log) ==
    IF SplitCount(line) + c.tokens_so_far > TokenCeiling THEN Len(log) \div 2
    ELSE 0

StampOf(c, l) ==
    IF l.human THEN c.human_chat_log[l.index].stamp
    ELSE c.ai_chat_log[l.index].stamp

\* C4: the lines to_string writes alternate human, ai, human, ... from a
\* human line on: no two human lines and no two ai lines are adjacent.
C4_RenderAlternates ==
    \A c \in Histories :
        LET ls == LinesWritten(c)
        IN  /\ ls # <<>> => ls[1].human
            /\ \A i \in 1..(Len(ls) - 1) : ls[i].human # ls[i + 1].human

\* C5: to_string writes the turns a history holds in the order they were
\* appended: of two turns, the one appended earlier is written earlier.
C5_RenderKeepsTurnOrder ==
    \A c \in Histories :
        LET ls == LinesWritten(c)
        IN  \A i \in 1..Len(ls) : \A j \in (i + 1)..Len(ls) :
                StampOf(c, ls[i]) < StampOf(c, ls[j])

\* the label a human line is written with
SpeakerLabel(c, e) ==
    IF c.is_private THEN <<"H", "u", "m", "a", "n">> ELSE e.name

\* the i-th written line as the format of the rendering has it: a human line
\* ends in a newline, an ai line in a space when it is the last line written
\* (no human and no ai entry is left after it) and in a newline otherwise
FormattedLine(c, ai_name, ls, i) ==
    IF ls[i].human
    THEN LET e == c.human_chat_log[ls[i].index]
         IN  SpeakerLabel(c, e) \o <<":", " ">> \o Trim(e.line) \o <<"\n">>
    ELSE LET e == c.ai_chat_log[ls[i].index]
         IN  ai_name \o <<":", " ">> \o Trim(e.line)
               \o (IF i = Len(ls) THEN <<" ">> ELSE <<"\n">>)

\* C6: to_string is the start context, a blank line and the lines in that
\* format.
C6_RenderFormat ==
    \A c \in Histories :
        LET ls == LinesWritten(c)
        IN  to_string(c, get_name) =
                Concat([i \in 1..Len(ls) |-> FormattedLine(c, get_name, ls, i)],
                       c.start_context \o <<"\n", "\n">>)

\* the scenario of C6 with the names and texts of the model: a guild history
\* of ("Alice", "hi") and " ok" renders for "Bot" as
\* "<start context>\n\nAlice: hi\nBot: ok "
C6_Witness ==
    \E c \in Histories :
        /\ ~c.is_private
        /\ Len(c.human_chat_log) = 1
        /\ Len(c.ai_chat_log) = 1
        /\ c.ai_chat_log[1].line = <<" ", "o", "k">>
        /\ to_string(c, <<"B", "o", "t">>) =
               c.start_context \o
               <<"\n","\n","A","l","i","c","e",":"," ","h","i","\n",
                 "B","o","t",":"," ","o","k"," ">>

\* the histories of exactly one human turn and no agent turn
OneHumanTurnOnly ==
    {c \in Histories : Len(c.human_chat_log) = 1 /\ c.ai_chat_log = <<>>}

\* C7 as stated: a history of one human turn and no agent turn renders as the
\* start context, a blank line and "<label>: <text>" followed by one space.
C7_SingleHumanLineEndsInSpace ==
    \A c \in OneHumanTurnOnly :
        LET e == c.human_chat_log[1]
        IN  to_string(c, get_name) =
                c.start_context \o <<"\n", "\n">> \o SpeakerLabel(c, e)
                  \o <<":", " ">> \o e.line \o <<" ">>

\* C7, amended: a history of one human turn and no agent turn renders as the
\* start context, a blank line and "<label>: <text>" followed by a newline;
\* with the start context "Hello." and the turn ("Alice", "hi") that is
\* "Hello.\n\nAlice: hi\n".
C7_SingleHumanLineEndsInNewline ==
    \A c \in OneHumanTurnOnly :
        LET e == c.human_chat_log[1]
        IN  /\ to_string(c, get_name) =
                   c.start_context \o <<"\n", "\n">> \o SpeakerLabel(c, e)
                     \o <<":", " ">> \o e.line \o <<"\n">>
            /\ (/\ c.start_context = <<"H","e","l","l","o",".">>
                /\ ~c.is_private
                /\ e.name = <<"A","l","i","c","e">>
                /\ e.line = <<"h","i">>)
                   => to_string(c, <<"B", "o", "t">>) =
                          <<"H","e","l","l","o",".","\n","\n",
                            "A","l","i","c","e",":"," ","h","i","\n">>

\* the scenario of C7: start context "Hello.", add_human_log("Alice", "hi")
C7_Witness ==
    \E c \in OneHumanTurnOnly :
        /\ c.start_context = <<"H","e","l","l","o",".">>
        /\ ~c.is_private
        /\ c.human_chat_log[1].name = <<"A","l","i","c","e">>
        /\ c.human_chat_log[1].line = <<"h","i">>
        /\ name = Some(<<"B", "o", "t">>)

\* the choice texts of a task joined in order, each with its newlines
\* replaced by spaces
JoinedTexts(t) ==
    Concat([i \in 1..Len(task[t].texts) |->
               [j \in 1..Len(task[t].texts[i]) |->
                   IF task[t].texts[i][j] = "\n" THEN " "
                   ELSE task[t].texts[i][j]]],
           <<>>)

\* the turn of the message a task handles: the newest human entry
HumanTurnOf(t) ==
    HistoryOf(t).human_chat_log[Len(HistoryOf(t).human_chat_log)]

\* the agent turns of the run of a task: the ai entries newer than the human
\* turn of its message, by their index
AgentTurnsOfRun(t) ==
    {i \in 1..Len(HistoryOf(t).ai_chat_log) :
        HistoryOf(t).ai_chat_log[i].stamp > HumanTurnOf(t).stamp}

\* the calls of a task came back with "length", all but the last, and that
\* with one of "ends"
LengthsThen(t, ends) ==
    LET o == task[t].outcomes
    IN  /\ o # <<>>
        /\ o[Len(o)] \in ends
        /\ \A i \in 1..(Len(o) - 1) : o[i] = "length"

\* C8: a run of k "length" choices and then a "stop" choice returns (and
\* sends) the k+1 texts joined in order with newlines replaced by spaces, and
\* leaves exactly one agent turn of its own, the newest, whose text is that
\* reply.
C8_ContinuationMergesIntoOneTurn ==
    \A t \in Tasks :
        (task[t].pc = "send" /\ LengthsThen(t, {"stop"})) =>
            LET c == HistoryOf(t)
            IN  /\ Len(task[t].texts) = Len(task[t].outcomes)
                /\ task[t].result = Some([ok |-> TRUE, text |-> JoinedTexts(t)])
                /\ task[t].reply[1].text = JoinedTexts(t)
                /\ AgentTurnsOfRun(t) = {Len(c.ai_chat_log)}
                /\ c.ai_chat_log[Len(c.ai_chat_log)].line = JoinedTexts(t)

\* a run of one "length" choice and a "stop" choice has returned
C8_Witness ==
    \E t \in Tasks :
        task[t].pc = "send" /\ task[t].outcomes = <<"length", "stop">>

\* what C9 says of the states of the loop: while a call is in flight every
\* call before it came back with "length" and was followed by another call;
\* once the loop has returned, the last call, and no call before it, came
\* back with "stop", no choice or an error, and no call followed it; and a
\* loop that ended without error returned the texts it had
LoopStops ==
    \A t \in Tasks :
        /\ task[t].pc = "get_completion" =>
              /\ \A i \in 1..Len(task[t].outcomes) : task[t].outcomes[i] = "length"
              /\ task[t].calls = Len(task[t].outcomes) + 1
              /\ task[t].request # None
        /\ task[t].pc = "send" =>
              /\ LengthsThen(t, {"stop", "none", "error"})
              /\ task[t].calls = Len(task[t].outcomes)
              /\ task[t].request = None
              /\ LengthsThen(t, {"stop", "none"}) =>
                     task[t].result = Some([ok |-> TRUE, text |-> JoinedTexts(t)])

\* C9: the loop returns at the first response that has a "stop" choice, no
\* choice or is an error, calls again after every "length" choice, never
\* returns on "length", and, every call returning and some call not coming
\* back with "length", eventually returns.
C9_LoopReturnsAtFirstStop ==
    /\ []LoopStops
    /\ \A t \in Tasks :
           (task[t].pc = "get_completion") ~> (task[t].pc = "send")

\* a loop has called again after a "length" choice and returned when the
\* second response had no choice
C9_Witness ==
    \E t \in Tasks :
        task[t].pc = "send" /\ task[t].outcomes = <<"length", "none">>

\* C10: when the call of round k fails the loop makes no further call and
\* returns the error with no reply text (the failure message is sent); the
\* history keeps the human turn of the message and, for k > 1, one agent
\* turn of this run holding the texts of rounds 1..k-1 joined, and for k = 1
\* no agent turn of this run.
C10_FailureKeepsRecordedTurns ==
    \A t \in Tasks :
        (task[t].pc = "send" /\ LengthsThen(t, {"error"})) =>
            LET c == HistoryOf(t)
                m == task[t].msg[1]
            IN  /\ task[t].result = Some([ok |-> FALSE, text |-> <<>>])
                /\ task[t].reply[1].text = FailedToComplete
                /\ task[t].request = None
                /\ task[t].calls = Len(task[t].outcomes)
                /\ Len(task[t].texts) = task[t].calls - 1
                /\ HumanTurnOf(t).name = m.author.name
                /\ HumanTurnOf(t).line = Trim(ReplaceNewlines(m.content))
                /\ IF task[t].calls > 1
                   THEN /\ AgentTurnsOfRun(t) = {Len(c.ai_chat_log)}
                        /\ c.ai_chat_log[Len(c.ai_chat_log)].line = JoinedTexts(t)
                   ELSE AgentTurnsOfRun(t) = {}

\* the call of the second round of a loop has failed
C10_Witness ==
    \E t \in Tasks :
        task[t].pc = "send" /\ task[t].outcomes = <<"length", "error">>

\* the step a handler that has a message takes next, before its reply or its
\* first request: the registry lookup, the creation, the lock and the line
Proceeds(u) ==
    ContainsMedium(u) \/ CreateFromInitialMessage(u) \/ Handle(u)

\* the handlers that have a message and have not yet taken the write lock
Waiting == {u \in Tasks : task[u].pc \in {"contains_medium", "create", "write_lock"}}

\* C11: no exclusive lock is held across a remote call: while the call of
\* one conversation is in flight, a handler that has a message of another
\* conversation can take its next step.
C11_NoLockAcrossCall ==
    \A t \in Tasks : \A u \in Waiting :
        (/\ task[t].pc = "get_completion"
         /\ task[u].msg[1].channel_id # task[t].msg[1].channel_id)
            => ENABLED Proceeds(u)

\* C12: an entry of the registry is never replaced by a newly created
\* history: no step turns an entry that holds anything into a new one.
C12_ContextCreatedOnce ==
    [][\A k \in DOMAIN history_map :
         /\ k \in DOMAIN history_map'
         /\ history_map'[k] = NewChatHistory(history_map[k].is_private)
                => history_map[k] = history_map'[k]]_vars

\* C18: from the append of the human line of a message until its completion
\* loop has returned, only the handler of the message changes the history of
\* its conversation, and the history stays in the registry.
C18_HandlingIsAtomic ==
    [][\A t \in Tasks :
         task[t].pc = "get_completion" =>
             LET k == Ref(t)
             IN  /\ k \in DOMAIN history_map'
                 /\ history_map'[k] # history_map[k] =>
                        /\ task'[t] # task[t]
                        /\ \A u \in Tasks \ {t} : task'[u] = task[u]]_vars

\* a loop has recorded a choice and called again while the other handler
\* has a message of the same conversation and waits for the write lock
C18_Witness ==
    \E t \in Tasks : \E u \in Tasks \ {t} :
        /\ task[t].pc = "get_completion"
        /\ task[t].texts # <<>>
        /\ task[u].pc = "write_lock"
        /\ task[u].msg[1].channel_id = task[t].msg[1].channel_id


\* a step in which task t, holding a message of an allowed author whose
\* line is "line", runs the command branch up to its reply or return
CommandStep(t, line) ==
    /\ task[t].pc = "write_lock"
    /\ task'[t].pc # "write_lock"
    /\ task[t].msg[1].author.id \in {OwnerId, AdminId}
    /\ task[t].msg[1].content = line

\* task t goes on without a reply to send and without a request
NoReplyNoCall(t) ==
    /\ task'[t].pc = "reply"
    /\ task'[t].reply = None
    /\ task'[t].request = None
    /\ task'[t].calls = 0

\* a step in which task t returns from a command
CommandReturnStep(t) == task[t].pc = "reply" /\ task'[t].pc = "idle"

\* C13: an option command of an allowed author unsets the option when it
\* has no value, sets it to the number of a value that denotes one, and keeps
\* it otherwise; nothing else of the history changes, nothing is replied and
\* no completion is requested.
C13_OptionCommands ==
    [][\A t \in Tasks :
         /\ \A i \in 1..Len(OptionInputs) :
                CommandStep(t, OptionLine(OptionInputs[i])) =>
                    LET o == OptionInputs[i]
                        k == Ref(t)
                        c == history_map[k]
                        expected ==
                            CASE o.expect = "unset" -> None
                              [] o.expect = "set" -> Some(o.value)
                              [] o.expect = "keep" -> c.configuration[o.option]
                    IN  /\ history_map' =
                             [history_map EXCEPT ![k] =
                                 [c EXCEPT !.configuration[o.option] = expected]]
                        /\ NoReplyNoCall(t)
         /\ (CommandReturnStep(t) /\ task[t].reply = None) =>
                history_map' = history_map]_vars

\* "!temperature abc" has been run on a history whose temperature an
\* earlier command set to 0.5, and has left it so
C13_Witness ==
    \E t \in Tasks :
        /\ task[t].pc = "reply"
        /\ task[t].msg[1].content = OptionLine(OptionInputs[3])
        /\ HistoryOf(t).configuration.temperature =
               Some([neg |-> FALSE, mant |-> 5, scale |-> 1])

\* the history a reset leaves of c when its start context is text: both
\* logs and the names empty, the estimate the cost of text alone
IsResetOf(d, c, text) ==
    /\ d.start_context = text
    /\ d.human_chat_log = <<>>
    /\ d.ai_chat_log = <<>>
    /\ d.seen_names = {}
    /\ d.tokens_so_far = SplitCount(text)
    /\ d.configuration = c.configuration
    /\ d.is_private = c.is_private

\* C14: when "!context=<text>" of an allowed author has been run the start
\* context is <text>, both logs and the names are empty and tokens_so_far is
\* the cost of <text>; "!reset" leaves the start context and does the same;
\* the configuration is as before.
C14_ContextAndReset ==
    [][\A t \in Tasks :
         LET k == Ref(t)
             c == history_map[k]
             d == history_map'[k]
         IN  /\ CommandStep(t, CmdReset) => IsResetOf(d, c, c.start_context)
             /\ \A text \in ContextInputs :
                   /\ CommandStep(t, CmdContext \o text) =>
                          /\ d.start_context = text
                          /\ d.configuration = c.configuration
                   /\ (/\ CommandReturnStep(t)
                       /\ task[t].msg[1].content = CmdContext \o text) =>
                          IsResetOf(d, c, text)
             /\ (CommandReturnStep(t) /\ task[t].msg[1].content = CmdReset) =>
                    d = c]_vars

\* "!context=Be kind." is being run on a history that holds turns: the start
\* context is replaced, the reply is on its way and the reset follows
C14_Witness ==
    \E t \in Tasks :
        /\ task[t].pc = "reply"
        /\ task[t].after_reply = "reset"
        /\ HistoryOf(t).start_context = <<"B", "e", " ", "k", "i", "n", "d", ".">>
        /\ HistoryOf(t).human_chat_log # <<>>
        /\ HistoryOf(t).ai_chat_log # <<>>

\* the commands the handler knows
Commands ==
    {CmdTemperature, CmdFrequencyPenalty, CmdPresencePenalty, CmdTopP,
     CmdReset, CmdLog, CmdContext, CmdInfo}

\* a line with the command prefix that its author may not run or that is
\* none of the commands
Swallowed(m) ==
    /\ StartsWith(m.content, <<"!">>)
    /\ \/ m.author.id \notin {OwnerId, AdminId}
       \/ \A cmd \in Commands : ~StartsWith(m.content, cmd)

\* C15: a line with the command prefix of an author who is not allowed, or
\* that is none of the commands, leaves the history as it is, is not logged
\* and requests no completion.
C15_SwallowedLines ==
    [][\A t \in Tasks :
         (task[t].msg # None /\ Swallowed(task[t].msg[1])) =>
             /\ (task[t].pc = "write_lock" /\ task'[t].pc # "write_lock") =>
                    /\ history_map' = history_map
                    /\ NoReplyNoCall(t)
             /\ task[t].pc = "reply" =>
                    /\ history_map' = history_map
                    /\ task'[t].pc \in {"reply", "idle"}]_vars

\* "!reset" of an author who is not allowed has been handled on a history
\* that holds turns
C15_Witness ==
    \E t \in Tasks :
        /\ task[t].pc = "reply"
        /\ task[t].msg[1].author.id \notin {OwnerId, AdminId}
        /\ task[t].msg[1].content = CmdReset
        /\ HistoryOf(t).human_chat_log # <<>>
        /\ HistoryOf(t).ai_chat_log # <<>>

\* the stop tokens of the request a task awaits
StopTokensOf(t) == task[t].request[1].stop_tokens[1]

\* C16: the stop tokens of every request start with the bare newline and
\* "<agentName>:"; on a private context exactly "Human:" follows; on any
\* other context exactly min(2, |seen_names|) entries follow, each
\* "<name>:" for distinct names of seen_names.  The list has 2 to 4 entries.
C16_StopTokens ==
    \A t \in Tasks :
        task[t].pc = "get_completion" =>
            LET c     == history_map[Ref(t)]
                stop  == StopTokensOf(t)
                extra == SubSeq(stop, 3, Len(stop))
                two   == IF Cardinality(c.seen_names) < 2
                         THEN Cardinality(c.seen_names) ELSE 2
            IN  /\ Len(stop) \in 2..4
                /\ stop[1] = <<"\n">>
                /\ stop[2] = task[t].ai_name \o <<":">>
                /\ IF c.is_private
                   THEN extra = << <<"H", "u", "m", "a", "n", ":">> >>
                   ELSE /\ Len(extra) = two
                        /\ \A i \in DOMAIN extra :
                               \E n \in c.seen_names : extra[i] = n \o <<":">>
                        /\ \A i, j \in DOMAIN extra : i # j => extra[i] # extra[j]

\* a request of a guild conversation that has seen three speakers carries
\* four stop tokens
C16_Witness ==
    \E t \in Tasks :
        /\ task[t].pc = "get_completion"
        /\ ~history_map[Ref(t)].is_private
        /\ Cardinality(history_map[Ref(t)].seen_names) = 3
        /\ Len(StopTokensOf(t)) = 4

\* a step in which task t resets its history: it runs "!reset", or it
\* returns from "!context=", whose reset follows the reply
ResetStep(t) ==
    \/ /\ task[t].pc = "write_lock"
       /\ task'[t].pc = "reply"
       /\ IsAllowed(task[t].msg[1].author.id)
       /\ StartsWith(HumanContentSafe(task[t].msg[1]), CmdReset)
    \/ /\ task[t].pc = "reply"
       /\ StartsWith(HumanContentSafe(task[t].msg[1]), CmdContext)

\* C17 as stated: no step removes a name from seen_names.
C17_NamesNeverRemoved ==
    [][\A k \in DOMAIN history_map :
         history_map[k].seen_names \subseteq history_map'[k].seen_names]_vars

\* C17: no append and no purge removes a name from seen_names; the only step
\* that removes names is a reset, and it removes them all.
C17_NamesKeptUntilReset ==
    [][\A k \in DOMAIN history_map :
         \/ history_map[k].seen_names \subseteq history_map'[k].seen_names
         \/ /\ history_map'[k].seen_names = {}
            /\ \E t \in Tasks : task[t].msg # None /\ Ref(t) = k /\ ResetStep(t)]_vars

\* a purge has dropped turns of a guild conversation and its speaker is
\* still among the names
C17_Witness ==
    \E c \in Histories :
        /\ ~c.is_private
        /\ c.pushed > Len(c.human_chat_log) + Len(c.ai_chat_log)
        /\ c.seen_names # {}

\* the end of the prompt of a continuation round as C19 states it: the
\* agent's name, the agent turn recorded so far, trimmed, and a space
PartialTurnEnding(t) ==
    LET ai_log == HistoryOf(t).ai_chat_log
    IN  task[t].ai_name \o <<":", " ">> \o Trim(ai_log[Len(ai_log)].line) \o <<" ">>

\* C19: the prompt of every continuation round ends with "<agentName>: ",
\* the partial agent turn, trimmed, and a single space.
C19_ContinuationPromptEndsInPartialTurn ==
    \A t \in Tasks :
        (task[t].pc = "get_completion" /\ ~task[t].first) =>
            LET prompt == task[t].request[1].prompt
                ending == PartialTurnEnding(t)
            IN  /\ Len(prompt) >= Len(ending)
                /\ SubSeq(prompt, Len(prompt) - Len(ending) + 1, Len(prompt)) = ending

\* a step in which task t adds the choice of a later round to the last
\* agent turn
ContinueStep(t) ==
    /\ task[t].pc = "get_completion"
    /\ ~task[t].first
    /\ Len(task'[t].texts) > Len(task[t].texts)

\* a log without its last entry
Front(log) == SubSeq(log, 1, Len(log) - 1)

\* C20: when an append finds that its line does not fit the budget, the
\* estimate it leaves is the cost of the line added to the cost, computed
\* from scratch, of what the purge kept: the start context, every kept human
\* turn with its label and every kept agent turn plus 1.
C20_EstimateAfterPurgeIsFromScratch ==
    [][\A t \in Tasks :
         LET c == history_map[Ref(t)]
             d == history_map'[Ref(t)]
         IN  /\ HumanAppendStep(t) =>
                  LET line == HumanContentSafe(task[t].msg[1])
                      kept == [d EXCEPT !.human_chat_log = Front(@)]
                  IN  OverBudget(c, line) =>
                          d.tokens_so_far = TurnCosts(kept) + SplitCount(line)
             /\ AiAppendStep(t) =>
                  LET line == ReplaceNewlines(task'[t].texts[Len(task'[t].texts)])
                      kept == [d EXCEPT !.ai_chat_log = Front(@)]
                  IN  OverBudget(c, line) =>
                          d.tokens_so_far = TurnCosts(kept) + SplitCount(line)
             /\ ContinueStep(t) =>
                  LET line == ReplaceNewlines(task'[t].texts[Len(task'[t].texts)])
                      n    == Len(d.ai_chat_log)
                      kept == [d EXCEPT !.ai_chat_log[n].line =
                                            SubSeq(@, 1, Len(@) - Len(line))]
                  IN  (OverBudget(c, line) /\ n > 0) =>
                          d.tokens_so_far = TurnCosts(kept) + SplitCount(line)]_vars

\* an append to a direct conversation has purged and recomputed: turns were
\* dropped, turns were kept, and the estimate is the cost of the kept turns
\* and of the line
C20_Witness ==
    \E t \in InLoop :
        LET c == HistoryOf(t)
        IN  /\ c.is_private
            /\ c.pushed > Len(c.human_chat_log) + Len(c.ai_chat_log)
            /\ Len(c.human_chat_log) + Len(c.ai_chat_log) >= 2
            /\ c.tokens_so_far < TurnCosts(c)

\* the tasks past the check-then-create step: about to take the write lock
\* of the registry, or holding it
PastCreate == {t \in Tasks : task[t].pc \in {"write_lock", "reply", "get_completion", "send"}}

\* C22: the lookup that follows the check-then-create step finds an entry:
\* a task that is to take the write lock of the registry, or holds it, has
\* a history for the channel of its message in the registry, and no task
\* panics at the unwrap.
C22_LookupFinds ==
    \A t \in Tasks :
        /\ task[t].pc # "panicked"
        /\ t \in PastCreate => contains_medium(task[t].msg[1].channel_id)

\* two handlers of the same channel both found no history: one has created
\* it and is at the lookup while the other is still to create it
C22_Witness ==
    \E t \in Tasks, u \in Tasks :
        /\ task[t].pc = "write_lock"
        /\ task[u].pc = "create"
        /\ task[t].msg[1].channel_id = task[u].msg[1].channel_id

\* C23: when a later round of the loop calls continue_last_ai_log, the ai
\* log is not empty and its last entry is the turn the first round of this
\* run appended, holding what the run has received so far; after the call,
\* purge or no purge, it is still the last entry and holds the new text too.
C23_ContinuationFindsItsTurn ==
    [][\A t \in Tasks :
         ContinueStep(t) =>
             LET c == history_map[Ref(t)].ai_chat_log
                 d == history_map'[Ref(t)].ai_chat_log
             IN  /\ c # <<>>
                 /\ c[Len(c)].line = task[t].response_buffer
                 /\ d # <<>>
                 /\ d[Len(d)].stamp = c[Len(c)].stamp
                 /\ d[Len(d)].line = task'[t].response_buffer]_vars

\* a later round has added its text to the turn of the first round in a
\* history of which a purge has dropped older turns
C23_Witness ==
    \E t \in InLoop :
        LET c == HistoryOf(t)
        IN  /\ Len(task[t].texts) >= 2
            /\ c.pushed > Len(c.human_chat_log) + Len(c.ai_chat_log)
            /\ c.ai_chat_log # <<>>
            /\ c.ai_chat_log[Len(c.ai_chat_log)].line = task[t].response_buffer

\* the tasks that handle a line with the command prefix
CommandTasks ==
    {t \in Tasks : /\ task[t].msg # None
                   /\ StartsWith(HumanContentSafe(task[t].msg[1]), <<"!">>)}

\* a lock of start_context is out only while the handler that took it, which
\* holds the write guard of the registry, awaits the send of its reply
GuardIsOfReplying ==
    \A k \in DOMAIN history_map :
        history_map[k].start_context_lock # "free" =>
            \E t \in Tasks : /\ task[t].pc = "reply"
                             /\ Ref(t) = k
                             /\ map_writer = Some(t)
                             /\ task[t].after_reply \in {"reset", "unlock"}

\* C21: no handler waits for a lock of start_context that is out (its own
\* included), and every handler of a command line returns, which releases
\* the write guard of the registry.
C21_CommandsFinish ==
    /\ []GuardIsOfReplying
    /\ \A t \in Tasks :
           (t \in CommandTasks) ~> (task[t].pc = "idle" /\ map_writer # Some(t))

\* "!context=" holds the write guard of start_context and awaits its reply,
\* with the reset to follow, while another handler waits for the registry
C21_Witness ==
    \E t \in Tasks, u \in Tasks :
        /\ task[t].pc = "reply"
        /\ task[t].after_reply = "reset"
        /\ history_map[Ref(t)].start_context_lock = "write"
        /\ u \in CommandTasks
        /\ task[u].pc \in {"contains_medium", "create", "write_lock"}

====
